---- MODULE Spec2Model ----
(***************************************************************************)
(* State-machine model of the websocket session layer of the frontend:     *)
(* frontend/src/context/ws-client-provider.tsx (WsClientProvider).         *)
(*                                                                         *)
(* The provider owns one socket.io channel, an event log (`events`), a     *)
(* replay queue that is drained by a 1000 ms timer chain on share routes,  *)
(* and the resume cursor (`lastEventRef`).  Every callback of the provider *)
(* runs to completion, so each one is one action of the model.             *)
(***************************************************************************)
EXTENDS Integers, Sequences, FiniteSets, TLC

(***************************************************************************)
(* Bounds of the model.                                                    *)
(***************************************************************************)
\* frames delivered to handleMessage in one behaviour
MaxArrivals == 3
\* numeric event ids 1..MaxId occur in inbound frames
MaxId == 2
\* calls of send() in one behaviour
MaxSends == 1
\* error payloads handed to the chat error reporter in one behaviour
MaxReports == 1
\* calls of resetReplay() in one behaviour
MaxResets == 1
\* events the remote side holds for the conversation (well-behaved remote)
MaxRemoteEvents == 3
\* runs of the connection effect (sessions) in one behaviour
MaxSessions == 2

(***************************************************************************)
(* JavaScript values of the `id` field and parseInt(id, 10).               *)
(***************************************************************************)
Num(n) == [k |-> "number", n |-> n, s |-> <<>>]
Str(s) == [k |-> "string", n |-> 0, s |-> s]
Undefined == [k |-> "undefined", n |-> 0, s |-> <<>>]
\* no handshake has carried a cursor yet
NoCursor == [k |-> "none", n |-> 0, s |-> <<>>]

Digits == <<"0", "1", "2", "3", "4", "5", "6", "7", "8", "9">>

IsDigit(c) == \E d \in 1..10 : Digits[d] = c

DigitValue(c) == (CHOOSE d \in 1..10 : Digits[d] = c) - 1

RECURSIVE ToDecimal(_)
ToDecimal(n) ==
    IF n < 10 THEN <<Digits[n + 1]>>
    ELSE Append(ToDecimal(n \div 10), Digits[(n % 10) + 1])

\* the string parseInt works on: ToString of its first argument
ToStringJS(v) ==
    CASE v.k = "number" ->
           IF v.n < 0 THEN <<"-">> \o ToDecimal(-v.n) ELSE ToDecimal(v.n)
      [] v.k = "string" -> v.s
      [] OTHER -> <<"u", "n", "d", "e", "f", "i", "n", "e", "d">>

RECURSIVE TrimStart(_)
TrimStart(s) ==
    IF s # <<>> /\ Head(s) = " " THEN TrimStart(Tail(s)) ELSE s

RECURSIVE DigitPrefix(_)
DigitPrefix(s) ==
    IF s # <<>> /\ IsDigit(Head(s))
    THEN <<Head(s)>> \o DigitPrefix(Tail(s))
    ELSE <<>>

RECURSIVE DecimalValue(_)
DecimalValue(ds) ==
    IF ds = <<>> THEN 0
    ELSE 10 * DecimalValue(SubSeq(ds, 1, Len(ds) - 1)) + DigitValue(ds[Len(ds)])

NaN == [nan |-> TRUE, val |-> 0]

\* parseInt(x, 10): leading blanks, an optional sign, the longest digit prefix
parseInt(v) ==
    LET s == TrimStart(ToStringJS(v))
        neg == s # <<>> /\ Head(s) = "-"
        body == IF s # <<>> /\ Head(s) \in {"-", "+"} THEN Tail(s) ELSE s
        ds == DigitPrefix(body)
    IN  IF ds = <<>> THEN NaN
        ELSE [nan |-> FALSE,
              val |-> IF neg THEN -DecimalValue(ds) ELSE DecimalValue(ds)]

isNaN(p) == p.nan

(***************************************************************************)
(* Inbound frames: objects whose keys may be missing.                      *)
(***************************************************************************)
Frame(id, source, type) ==
    [id |-> id, source |-> source, type |-> type,
     timestamp |-> "ts", message |-> "m"]

\* the object without one of its keys
Without(f, key) == [x \in DOMAIN f \ {key} |-> f[x]]

\* event.id, undefined when the key is missing
IdOf(event) == IF "id" \in DOMAIN event THEN event.id ELSE Undefined

ValidFrames == {Frame(Num(i), "agent", "message") : i \in 1..MaxId}

OddIdFrames ==
    {Frame(Str(<<"x">>), "agent", "message"),
     Frame(Str(<<"1", "x">>), "environment", "observation")}

MalformedFrames ==
    {Without(Frame(Num(1), "agent", "message"), "timestamp"),
     Without(Frame(Num(1), "user", "message"), "id")}

FramePool == ValidFrames \cup OddIdFrames \cup MalformedFrames

\* a smaller choice of frames: numeric ids, one id that is no number, one
\* frame without timestamp
SmallPool ==
    ValidFrames \cup
    {Frame(Str(<<"x">>), "agent", "message"),
     Without(Frame(Num(1), "agent", "message"), "timestamp")}

\* messages of the user and the agent, and frames that are no such message:
\* another source, another type, no timestamp
RatePool ==
    {Frame(Num(1), "agent", "message"),
     Frame(Num(2), "user", "message"),
     Frame(Num(1), "environment", "message"),
     Frame(Num(2), "agent", "run"),
     Without(Frame(Num(2), "agent", "message"), "timestamp")}

isOpenHandsEvent(event) ==
    /\ "id" \in DOMAIN event
    /\ "source" \in DOMAIN event
    /\ "message" \in DOMAIN event
    /\ "timestamp" \in DOMAIN event

isUserMessage(event) ==
    /\ "source" \in DOMAIN event
    /\ "type" \in DOMAIN event
    /\ event.source = "user"
    /\ event.type = "message"

isAssistantMessage(event) ==
    /\ "source" \in DOMAIN event
    /\ "type" \in DOMAIN event
    /\ event.source = "agent"
    /\ event.type = "message"

isMessageAction(event) == isUserMessage(event) \/ isAssistantMessage(event)

(***************************************************************************)
(* Payloads of the transport's connect_error / disconnect signals.         *)
(***************************************************************************)
\* a plain reason string, or an object without a string message
NoMessage == [hasMessage |-> FALSE, message |-> ""]
WithMessage(m) == [hasMessage |-> TRUE, message |-> m]

Payloads ==
    {NoMessage} \cup
    {WithMessage(m) : m \in {"websocket error", "timeout",
                             "Conversation not found", "agent crashed"}}

\* what a refused handshake carries, next to the payloads above
HandshakePayloads ==
    Payloads \cup {WithMessage("Conversation not published")}

\* what plain transport failures carry: a reason, or a suppressed message
TransportPayloads == {NoMessage, WithMessage("timeout")}

\* the payloads updateStatusWhenErrorMessagePresent hands to showChatError
Reportable(data) ==
    /\ data.hasMessage
    /\ ~(data.message = "websocket error" \/ data.message = "timeout")

Commands == {"user_message"}

ConversationIds == {"c1", "c2"}

\* values of useGetJwt()
Tokens == {"jwt1", "jwt2"}

VARIABLES
    \* inputs of the current render: the prop, the route flag, the token
    conversationId, isShareRoute, jwt,
    \* the provider is mounted (its effect has run and not been cleaned up
    \* for good)
    mounted,
    \* the events on which the consumer handler (handleAssistantMessage)
    \* throws
    failing,
    \* the handler functions of the render that produced the context value
    \* are the very functions the effect registered on the channel
    handlersCurrent,
    \* number of runs of the connection effect so far (0: not yet mounted)
    session,
    \* the socket.io channels created so far and the one the provider owns
    sockets, sioRef,
    \* React state and refs of WsClientProvider
    status, events, replayStatus, lastEventRef, messageQueueRef,
    processingQueueRef, shouldProcessMessagesRef,
    \* pending 1000 ms delivery timers, in the order they were scheduled
    timers,
    \* collaborators: consumer handler, transport emits, error log,
    \* chat error reporter, pending redirects, rate monitor records
    handled, emitted, logged, reported, redirects, rateRecords,
    \* history: the frames handed to handleMessage in this session, the
    \* number of resetReplay() calls, and the log that the last resetReplay()
    \* of a COMPLETED replay set out to replay (<<>> once a frame arrives)
    arrived, resets, replayedFrom

props == <<conversationId, isShareRoute, session, jwt, mounted, failing>>
replay == <<events, replayStatus, lastEventRef, messageQueueRef,
            processingQueueRef, timers, handled>>
outside == <<emitted, logged, reported, redirects>>
vars == <<props, sockets, sioRef, status, replay, shouldProcessMessagesRef,
          outside, rateRecords, arrived, resets, replayedFrom,
          handlersCurrent>>

\* state after construction: useState / useRef initial values (lines 132-143)
Init ==
    /\ conversationId = ""
    /\ isShareRoute = FALSE
    /\ jwt = "jwt1"
    /\ mounted = FALSE
    /\ failing = {}
    /\ handlersCurrent = TRUE
    /\ session = 0
    /\ sockets = <<>>
    /\ sioRef = 0
    /\ status = "DISCONNECTED"
    /\ events = <<>>
    /\ replayStatus = "IN_PROGRESS"
    /\ lastEventRef = <<>>
    /\ messageQueueRef = <<>>
    /\ processingQueueRef = FALSE
    /\ shouldProcessMessagesRef = TRUE
    /\ timers = <<>>
    /\ handled = <<>>
    /\ emitted = <<>>
    /\ logged = 0
    /\ reported = <<>>
    /\ redirects = 0
    /\ rateRecords = 0
    /\ arrived = <<>>
    /\ resets = 0
    /\ replayedFrom = <<>>

(***************************************************************************)
(* The replay scheduler and the facade operations, as functions of the     *)
(* state they read and write (a record r of the `replay` variables).       *)
(***************************************************************************)
\* F(x), with x evaluated once (TLC otherwise re-evaluates an argument at
\* each of its uses)
Bind(F(_), x) == CHOOSE v \in {F(y) : y \in {x}} : TRUE

Cur ==
    [events |-> events, replayStatus |-> replayStatus,
     lastEventRef |-> lastEventRef, messageQueueRef |-> messageQueueRef,
     processingQueueRef |-> processingQueueRef, timers |-> timers,
     handled |-> handled]

\* a state setter of an unmounted component does nothing
SetState(old, new) == IF mounted THEN new ELSE old

\* a changed status, events or replayStatus re-renders the provider and
\* recomputes the context value (lines 378-390): the handler functions are
\* created anew and are no longer the ones registered on the channel
Rendered ==
    handlersCurrent' = (/\ handlersCurrent
                        /\ status' = status
                        /\ events' = events
                        /\ replayStatus' = replayStatus)

Commit(r) ==
    /\ events' = SetState(events, r.events)
    /\ replayStatus' = SetState(replayStatus, r.replayStatus)
    /\ lastEventRef' = r.lastEventRef
    /\ messageQueueRef' = r.messageQueueRef
    /\ processingQueueRef' = r.processingQueueRef
    /\ timers' = r.timers
    /\ handled' = r.handled

\* faulty variant of TrackCursor: the numeric-id test is left out
TrackCursor_unguarded(last, event) == <<event>>

\* lastEventRef.current = event, guarded by the numeric-id test
TrackCursor(last, event) ==
    IF ~isNaN(parseInt(IdOf(event))) THEN <<event>> ELSE last

\* lastEventRef.current?.id
CursorId(last) == IF last = <<>> THEN Undefined ELSE IdOf(last[1])

\* faulty variant of processMessageQueue: the consumer is not called
processMessageQueue_noForward(r) ==
    IF \/ ~shouldProcessMessagesRef
       \/ r.processingQueueRef
       \/ Len(r.messageQueueRef) = 0
    THEN IF Len(r.messageQueueRef) = 0 /\ ~r.processingQueueRef
         THEN [r EXCEPT !.replayStatus = "COMPLETED"]
         ELSE r
    ELSE LET event == Head(r.messageQueueRef) IN
         [r EXCEPT !.processingQueueRef = TRUE,
                   !.messageQueueRef = Tail(@),
                   !.events = Append(@, event),
                   !.lastEventRef = TrackCursor(@, event),
                   !.timers = Append(@, session)]

\* handleAssistantMessage(event) throws; the exception leaves the calling
\* function at that statement
handlerThrows(event) == event \in failing

\* one paced step: deliver the head of the queue and arm the 1000 ms timer.
\* When the consumer handler throws at line 245, setTimeout (247) is not
\* reached.  (The `else` branch of lines 257-260 needs a falsy queue entry;
\* frames are objects, so it is not reachable.)
processMessageQueue(r) ==
    IF \/ ~shouldProcessMessagesRef
       \/ r.processingQueueRef
       \/ Len(r.messageQueueRef) = 0
    THEN IF Len(r.messageQueueRef) = 0 /\ ~r.processingQueueRef
         THEN [r EXCEPT !.replayStatus = "COMPLETED"]
         ELSE r
    ELSE LET event == Head(r.messageQueueRef) IN
         [r EXCEPT !.processingQueueRef = TRUE,
                   !.messageQueueRef = Tail(@),
                   !.events = Append(@, event),
                   !.lastEventRef = TrackCursor(@, event),
                   !.handled = Append(@, event),
                   !.timers = IF handlerThrows(event) THEN @
                              ELSE Append(@, session)]

\* faulty variant of timerCallback: the next entry is taken from the back
timerCallback_lifo(r) ==
    LET r1 == [r EXCEPT !.processingQueueRef = FALSE] IN
    IF ~shouldProcessMessagesRef THEN r1
    ELSE IF Len(r1.messageQueueRef) = 0
         THEN [r1 EXCEPT !.replayStatus = "COMPLETED"]
         ELSE LET n == Len(r1.messageQueueRef)
                  event == r1.messageQueueRef[n]
              IN  [r1 EXCEPT !.processingQueueRef = TRUE,
                             !.messageQueueRef = SubSeq(@, 1, n - 1),
                             !.events = Append(@, event),
                             !.lastEventRef = TrackCursor(@, event),
                             !.handled = Append(@, event),
                             !.timers = Append(@, session)]

\* faulty variant of timerCallback: the callback does not take up the next entry
timerCallback_noContinue(r) ==
    LET r1 == [r EXCEPT !.processingQueueRef = FALSE] IN
    IF ~shouldProcessMessagesRef THEN r1
    ELSE IF Len(r1.messageQueueRef) = 0
         THEN [r1 EXCEPT !.replayStatus = "COMPLETED"]
         ELSE r1

\* the callback of the timer armed by processMessageQueue (lines 247-256)
timerCallback(r) ==
    LET r1 == [r EXCEPT !.processingQueueRef = FALSE] IN
    IF ~shouldProcessMessagesRef THEN r1
    ELSE Bind(processMessageQueue,
              IF Len(r1.messageQueueRef) = 0
              THEN [r1 EXCEPT !.replayStatus = "COMPLETED"]
              ELSE r1)

\* faulty variant of skipToResults: only the last queued event reaches the log
skipToResults_lastOnly(r) ==
    IF Len(r.messageQueueRef) = 0 THEN r
    ELSE LET allEvents == r.messageQueueRef
             lastEvent == allEvents[Len(allEvents)]
         IN  [r EXCEPT !.messageQueueRef = <<>>,
                       !.events = Append(@, lastEvent),
                       !.lastEventRef = TrackCursor(@, lastEvent),
                       !.handled = @ \o allEvents,
                       !.replayStatus = "COMPLETED",
                       !.processingQueueRef = FALSE]

\* faulty variant of skipToResults: the batch is not handed to the consumer
skipToResults_noForward(r) ==
    IF Len(r.messageQueueRef) = 0 THEN r
    ELSE LET allEvents == r.messageQueueRef
             lastEvent == allEvents[Len(allEvents)]
         IN  [r EXCEPT !.messageQueueRef = <<>>,
                       !.events = @ \o allEvents,
                       !.lastEventRef = TrackCursor(@, lastEvent),
                       !.replayStatus = "COMPLETED",
                       !.processingQueueRef = FALSE]

\* faulty variant of skipToResults: every item of the batch is offered to the
\* cursor, so the last item with a numeric id wins
skipToResults_eachCursor(r) ==
    IF Len(r.messageQueueRef) = 0 THEN r
    ELSE LET allEvents == r.messageQueueRef
             numeric == {i \in 1..Len(allEvents) :
                            ~isNaN(parseInt(IdOf(allEvents[i])))}
         IN  [r EXCEPT !.messageQueueRef = <<>>,
                       !.events = @ \o allEvents,
                       !.lastEventRef =
                           IF numeric = {} THEN @
                           ELSE <<allEvents[CHOOSE i \in numeric :
                                              \A j \in numeric : j <= i]>>,
                       !.handled = @ \o allEvents,
                       !.replayStatus = "COMPLETED",
                       !.processingQueueRef = FALSE]

\* faulty variant of skipToResults: the batch replaces the log
skipToResults_replacesLog(r) ==
    IF Len(r.messageQueueRef) = 0 THEN r
    ELSE LET allEvents == r.messageQueueRef
             lastEvent == allEvents[Len(allEvents)]
         IN  [r EXCEPT !.messageQueueRef = <<>>,
                       !.events = allEvents,
                       !.lastEventRef = TrackCursor(@, lastEvent),
                       !.handled = @ \o allEvents,
                       !.replayStatus = "COMPLETED",
                       !.processingQueueRef = FALSE]

\* the calls allEvents.forEach makes: up to and including the first event
\* on which the consumer handler throws
Forwarded(allEvents) ==
    LET bad == {i \in 1..Len(allEvents) : handlerThrows(allEvents[i])} IN
    IF bad = {} THEN allEvents
    ELSE SubSeq(allEvents, 1, CHOOSE i \in bad : \A j \in bad : i <= j)

\* skipToResults (lines 198-222); when the consumer handler throws inside
\* forEach (216-218), lines 220-221 are not reached
skipToResults(r) ==
    IF Len(r.messageQueueRef) = 0 THEN r
    ELSE LET allEvents == r.messageQueueRef
             lastEvent == allEvents[Len(allEvents)]
             thrown == Forwarded(allEvents) # allEvents
                       \/ handlerThrows(lastEvent)
         IN  [r EXCEPT !.messageQueueRef = <<>>,
                       !.events = @ \o allEvents,
                       !.lastEventRef = TrackCursor(@, lastEvent),
                       !.handled = @ \o Forwarded(allEvents),
                       !.replayStatus =
                           IF thrown THEN @ ELSE "COMPLETED",
                       !.processingQueueRef = thrown]

\* faulty variant of resetReplay: the log is not emptied before it is replayed
resetReplay_noClear(r) ==
    Bind(processMessageQueue,
        [r EXCEPT !.replayStatus = "IN_PROGRESS",
                  !.messageQueueRef = r.events,
                  !.processingQueueRef = FALSE,
                  !.handled = <<>>])

\* resetReplay (lines 181-196);
\* dispatch(clearMessages()) empties what the consumer has built up
resetReplay(r) ==
    Bind(processMessageQueue,
        [r EXCEPT !.replayStatus = "IN_PROGRESS",
                  !.messageQueueRef = r.events,
                  !.events = <<>>,
                  !.processingQueueRef = FALSE,
                  !.handled = <<>>])

\* faulty variant of deliverLive: the cursor is not advanced
deliverLive_noCursor(r, event) ==
    [r EXCEPT !.events = Append(@, event),
              !.handled = Append(@, event)]

\* the live branch of handleMessage (lines 272-276)
deliverLive(r, event) ==
    [r EXCEPT !.events = Append(@, event),
              !.lastEventRef = TrackCursor(@, event),
              !.handled = Append(@, event)]

handleMessage(r, event) ==
    IF isShareRoute
    THEN Bind(processMessageQueue,
              [r EXCEPT !.messageQueueRef = Append(@, event)])
    ELSE deliverLive(r, event)

\* faulty variant of recordsRate: every well-formed frame is recorded
recordsRate_anyEvent(event) == isOpenHandsEvent(event)

\* messageRateHandler.record(...) of handleMessage (lines 264-266)
recordsRate(event) == isOpenHandsEvent(event) /\ isMessageAction(event)

\* faulty variant of updateStatusWhenErrorMessagePresent: nothing is suppressed
updateStatusWhenErrorMessagePresent_all(data) ==
    IF data.hasMessage THEN Append(reported, data.message) ELSE reported

updateStatusWhenErrorMessagePresent(data) ==
    IF Reportable(data) THEN Append(reported, data.message) ELSE reported

\* faulty variant of redirectsOnError: the route is not looked at
redirectsOnError_anyRoute(data) ==
    /\ data.hasMessage
    /\ data.message \in {"Conversation not published", "Conversation not found"}

\* handleError schedules navigate("/") after 1000 ms (lines 299-317)
redirectsOnError(data) ==
    /\ data.hasMessage
    /\ isShareRoute
    /\ data.message \in {"Conversation not published", "Conversation not found"}

(***************************************************************************)
(* The remote side and the socket.io channel.                              *)
(***************************************************************************)
NewSocket(cid, token, share) ==
    [conn |-> "connecting", listeners |-> TRUE, latest_event_id |-> Num(-1),
     conversation_id |-> cid, auth |-> token, shared |-> share,
     requested |-> NoCursor, next |-> 0]

\* first event id a well-behaved remote sends for a requested cursor:
\* the events after the cursor; no usable cursor means start of stream
RemoteStart(cursor) ==
    LET p == parseInt(cursor) IN
    IF isNaN(p) \/ p.val < 0 THEN 1 ELSE p.val + 1

RemoteFrame(i) == Frame(Num(i), "agent", "message")

\* faulty variant of closeChannel: the listeners are taken off but the
\* channel is left open
closeChannel_detachOnly(sock, sameHandlers) ==
    [sock EXCEPT !.listeners = IF sameHandlers THEN FALSE ELSE @]

(***************************************************************************)
(* Actions.                                                                *)
(***************************************************************************)
\* sio.off(name, handler), five times, then sio.disconnect(): off removes a
\* listener only if `handler` is the function that was registered, and the
\* handlers are functions declared in the component body, created anew by
\* every render.  Closing a connected channel notifies the "disconnect"
\* listeners still registered before the call returns, with a reason
\* string: handleDisconnect then runs while sioRef is still set (lines
\* 280-289) and stores lastEventRef.current?.id in the channel's query.
closeChannel(sock, sameHandlers) ==
    [sock EXCEPT
       !.listeners = IF sameHandlers THEN FALSE ELSE @,
       !.conn = "closed",
       !.latest_event_id =
           IF sock.conn = "connected" /\ sock.listeners /\ ~sameHandlers
           THEN CursorId(lastEventRef) ELSE @]

\* faulty variant of notifiesDisconnect: closing a channel reaches no listener
notifiesDisconnect_never(sock, sameHandlers) == FALSE

\* the closing call reached handleDisconnect, which sets DISCONNECTED
notifiesDisconnect(sock, sameHandlers) ==
    sock.conn = "connected" /\ sock.listeners /\ ~sameHandlers

\* the connection effect (lines 321-376).  It runs in the render in which
\* conversationId, jwt or isShareRoute changed, so the handlers it passes to
\* off are never the ones an earlier run registered.
connectionEffect(cid, token, share) ==
    /\ cid # ""
    /\ conversationId' = cid
    /\ jwt' = token
    /\ isShareRoute' = share
    /\ mounted' = TRUE
    /\ session' = session + 1
    /\ shouldProcessMessagesRef' = TRUE
    /\ sockets' =
         Append(IF sioRef # 0
                THEN [sockets EXCEPT
                        ![sioRef] = closeChannel(sockets[sioRef], FALSE)]
                ELSE sockets,
                NewSocket(cid, token, share))
    /\ status' = IF sioRef # 0 /\ notifiesDisconnect(sockets[sioRef], FALSE)
                 THEN "DISCONNECTED" ELSE status
    /\ sioRef' = Len(sockets) + 1
    /\ lastEventRef' = <<>>
    /\ messageQueueRef' = <<>>
    /\ processingQueueRef' = FALSE
    /\ replayStatus' = IF share THEN "IN_PROGRESS" ELSE replayStatus
    /\ arrived' = <<>>
    /\ handlersCurrent' = (session = 0)
    /\ UNCHANGED <<events, timers, handled, outside, rateRecords,
                   resets, replayedFrom, failing>>

\* the first run of the effect, after the first render
Mount(cid, share) ==
    /\ session = 0
    /\ connectionEffect(cid, jwt, share)

\* a render with another conversationId, token or route mode: the cleanup
\* of the previous run (lines 371-373) and then the effect again
Rerender(cid, token, share) ==
    /\ mounted
    /\ session < MaxSessions
    /\ <<cid, token, share>> # <<conversationId, jwt, isShareRoute>>
    /\ connectionEffect(cid, token, share)

\* the provider is unmounted: only the cleanup runs (lines 371-373)
Unmount ==
    /\ mounted
    /\ mounted' = FALSE
    /\ shouldProcessMessagesRef' = FALSE
    /\ UNCHANGED <<conversationId, isShareRoute, session, jwt, sockets,
                   sioRef, status, replay, outside, rateRecords, arrived,
                   resets, replayedFrom, handlersCurrent, failing>>

\* a render with an empty conversationId: the cleanup of the previous run
\* (lines 371-373) and then the effect, which throws "No conversation ID
\* provided" at its first statement (lines 322-324); the error leaves the
\* effect, and React takes the provider out of the tree
RerenderEmpty ==
    /\ mounted
    /\ conversationId' = ""
    /\ shouldProcessMessagesRef' = FALSE
    /\ mounted' = FALSE
    /\ UNCHANGED <<isShareRoute, session, jwt, failing, sockets, sioRef,
                   status, replay, outside, rateRecords, arrived, resets,
                   replayedFrom, handlersCurrent>>

\* the transport completes a handshake: "connect" -> handleConnect
TransportConnect(c) ==
    /\ sockets[c].conn = "connecting"
    /\ sockets' = [sockets EXCEPT
                     ![c].conn = "connected",
                     ![c].requested = sockets[c].latest_event_id,
                     ![c].next = RemoteStart(sockets[c].latest_event_id)]
    /\ status' = IF sockets[c].listeners
                 THEN SetState(status, "CONNECTED") ELSE status
    /\ UNCHANGED <<props, sioRef, replay, shouldProcessMessagesRef, outside,
                   rateRecords, arrived, resets, replayedFrom>>
    /\ Rendered

\* faulty variant of captureCursor: the channel keeps the cursor it was opened with
captureCursor_stale(socks) == socks

\* handleDisconnect, lines 282-287: the owned channel's query takes over
\* lastEventRef.current?.id as latest_event_id
captureCursor(socks) ==
    IF sioRef = 0 THEN socks
    ELSE [socks EXCEPT ![sioRef].latest_event_id = CursorId(lastEventRef)]

\* the transport drops an open connection: "disconnect" -> handleDisconnect
\* (lines 280-289); socket.io then retries with the channel's query
TransportDisconnect(c, data) ==
    /\ sockets[c].conn = "connected"
    /\ sockets[c].listeners
    /\ Reportable(data) => Len(reported) < MaxReports
    /\ status' = SetState(status, "DISCONNECTED")
    /\ sockets' = captureCursor([sockets EXCEPT ![c].conn = "connecting"])
    /\ reported' = IF sioRef = 0 THEN reported
                   ELSE updateStatusWhenErrorMessagePresent(data)
    /\ UNCHANGED <<props, sioRef, replay, shouldProcessMessagesRef, emitted,
                   logged, redirects, rateRecords, arrived, resets,
                   replayedFrom>>
    /\ Rendered

\* a connection attempt fails: "connect_error" -> handleError (lines 291-318)
TransportError(c, data) ==
    /\ sockets[c].conn = "connecting"
    /\ sockets[c].listeners
    /\ Reportable(data) => Len(reported) < MaxReports
    /\ status' = SetState(status, "DISCONNECTED")
    /\ reported' = updateStatusWhenErrorMessagePresent(data)
    /\ redirects' = IF redirectsOnError(data) THEN redirects + 1 ELSE redirects
    /\ UNCHANGED <<props, sockets, sioRef, replay, shouldProcessMessagesRef,
                   emitted, logged, rateRecords, arrived, resets, replayedFrom>>
    /\ Rendered

\* "oh_event" -> handleMessage (lines 263-278), any frame
OhEvent(c, event) ==
    /\ sockets[c].conn = "connected"
    /\ sockets[c].listeners
    /\ Len(arrived) < MaxArrivals
    /\ \E r \in {handleMessage(Cur, event)} : Commit(r)
    /\ rateRecords' =
         IF recordsRate(event) THEN rateRecords + 1 ELSE rateRecords
    /\ arrived' = Append(arrived, event)
    /\ replayedFrom' = <<>>
    /\ UNCHANGED <<props, sockets, sioRef, status, shouldProcessMessagesRef,
                   outside, resets>>
    /\ Rendered

\* "oh_event" from a remote that sends the events after the requested cursor
RemoteEvent(c) ==
    /\ sockets[c].conn = "connected"
    /\ sockets[c].listeners
    /\ sockets[c].next <= MaxRemoteEvents
    /\ Len(arrived) < MaxArrivals
    /\ \E r \in {handleMessage(Cur, RemoteFrame(sockets[c].next))} : Commit(r)
    /\ rateRecords' = rateRecords + 1
    /\ arrived' = Append(arrived, RemoteFrame(sockets[c].next))
    /\ sockets' = [sockets EXCEPT ![c].next = @ + 1]
    /\ replayedFrom' = <<>>
    /\ UNCHANGED <<props, sioRef, status, shouldProcessMessagesRef, outside,
                   resets>>
    /\ Rendered

\* a 1000 ms delivery timer expires (timers of equal delay fire in order)
DeliveryTimer ==
    /\ timers # <<>>
    /\ \E r \in {timerCallback([Cur EXCEPT !.timers = Tail(@)])} : Commit(r)
    /\ UNCHANGED <<props, sockets, sioRef, status, shouldProcessMessagesRef,
                   outside, rateRecords, arrived, resets,
                   replayedFrom>>
    /\ Rendered

SkipToResults ==
    /\ mounted
    /\ \E r \in {skipToResults(Cur)} : Commit(r)
    /\ UNCHANGED <<props, sockets, sioRef, status, shouldProcessMessagesRef,
                   outside, rateRecords, arrived, resets,
                   replayedFrom>>
    /\ Rendered

\* setEvents([]) stores a new array, so the call always re-renders
ResetReplay ==
    /\ mounted
    /\ resets < MaxResets
    /\ \E r \in {resetReplay(Cur)} : Commit(r)
    /\ resets' = resets + 1
    /\ replayedFrom' = IF replayStatus = "COMPLETED" THEN events ELSE <<>>
    /\ handlersCurrent' = FALSE
    /\ UNCHANGED <<props, sockets, sioRef, status, shouldProcessMessagesRef,
                   outside, rateRecords, arrived>>

\* faulty variant of send: the action is emitted twice
send_twice(event) ==
    IF sioRef = 0
    THEN /\ logged' = logged + 1
         /\ UNCHANGED emitted
    ELSE /\ emitted' = emitted \o
                 << [socket |-> sioRef, name |-> "oh_user_action",
                     event |-> event],
                    [socket |-> sioRef, name |-> "oh_user_action",
                     event |-> event] >>
         /\ UNCHANGED logged

\* send (lines 155-161)
send(event) ==
    IF sioRef = 0
    THEN /\ logged' = logged + 1
         /\ UNCHANGED emitted
    ELSE /\ emitted' = Append(emitted, [socket |-> sioRef,
                                        name |-> "oh_user_action",
                                        event |-> event])
         /\ UNCHANGED logged

Send(event) ==
    /\ mounted
    /\ Len(emitted) + logged < MaxSends
    /\ send(event)
    /\ UNCHANGED <<props, sockets, sioRef, status, replay,
                   shouldProcessMessagesRef, reported, redirects, rateRecords,
                   arrived, resets, replayedFrom, handlersCurrent>>

\* disconnect (lines 163-175)
disconnect ==
    IF sioRef # 0
    THEN /\ sockets' =
              [sockets EXCEPT
                 ![sioRef] = closeChannel(sockets[sioRef], handlersCurrent)]
         /\ sioRef' = 0
         /\ status' = "DISCONNECTED"
    ELSE UNCHANGED <<sockets, sioRef, status>>

Disconnect ==
    /\ mounted
    /\ disconnect
    /\ UNCHANGED <<props, replay, shouldProcessMessagesRef, outside,
                   rateRecords, arrived, resets, replayedFrom>>
    /\ Rendered

Channels == 1..Len(sockets)

(***************************************************************************)
(* SpecLive: one session on a normal (live) route, any inbound frames.     *)
(***************************************************************************)
NextLive ==
    \/ \E cid \in ConversationIds : Mount(cid, FALSE)
    \/ \E c \in Channels : TransportConnect(c)
    \/ \E c \in Channels, data \in TransportPayloads :
          TransportDisconnect(c, data)
    \/ \E c \in Channels, data \in TransportPayloads : TransportError(c, data)
    \/ \E c \in Channels, f \in FramePool : OhEvent(c, f)
    \/ \E e \in Commands : Send(e)
    \/ Disconnect

SpecLive == Init /\ [][NextLive]_vars

(***************************************************************************)
(* SpecReplay: one session on a share route: frames are queued and paced.  *)
(* FairReplay adds that an armed timer eventually expires.                 *)
(***************************************************************************)
NextReplay ==
    \/ \E cid \in ConversationIds : Mount(cid, TRUE)
    \/ \E c \in Channels : TransportConnect(c)
    \/ \E c \in Channels, data \in TransportPayloads :
          TransportDisconnect(c, data)
    \/ \E c \in Channels, f \in FramePool : OhEvent(c, f)
    \/ DeliveryTimer
    \/ SkipToResults

SpecReplay == Init /\ [][NextReplay]_vars

\* the session stays on one connection; an armed timer eventually expires
NextPaced ==
    \/ \E cid \in ConversationIds : Mount(cid, TRUE)
    \/ \E c \in Channels : TransportConnect(c)
    \/ \E c \in Channels, f \in SmallPool : OhEvent(c, f)
    \/ DeliveryTimer
    \/ SkipToResults

FairReplay == Init /\ [][NextPaced]_vars /\ WF_vars(DeliveryTimer)

(***************************************************************************)
(* SpecReset: SpecReplay with resetReplay().                               *)
(***************************************************************************)
NextReset ==
    \/ \E cid \in ConversationIds : Mount(cid, TRUE)
    \/ \E c \in Channels : TransportConnect(c)
    \/ \E c \in Channels, f \in SmallPool : OhEvent(c, f)
    \/ DeliveryTimer
    \/ SkipToResults
    \/ ResetReplay

SpecReset == Init /\ [][NextReset]_vars

(***************************************************************************)
(* SpecRemote: one session, live or shared, against a remote that on every *)
(* handshake sends the events after the requested cursor; the transport    *)
(* may drop and reconnect.                                                 *)
(***************************************************************************)
NextRemote ==
    \/ \E cid \in ConversationIds, share \in BOOLEAN : Mount(cid, share)
    \/ \E c \in Channels : TransportConnect(c)
    \/ \E c \in Channels, data \in TransportPayloads :
          TransportDisconnect(c, data)
    \/ \E c \in Channels : RemoteEvent(c)
    \/ DeliveryTimer

SpecRemote == Init /\ [][NextRemote]_vars

(***************************************************************************)
(* SpecCursor: one session, live or shared, receives frames of every kind; *)
(* on a share route they are delivered one per timer, nothing else acts.   *)
(***************************************************************************)
NextCursor ==
    \/ \E cid \in ConversationIds, share \in BOOLEAN : Mount(cid, share)
    \/ \E c \in Channels : TransportConnect(c)
    \/ \E c \in Channels, f \in FramePool : OhEvent(c, f)
    \/ DeliveryTimer

SpecCursor == Init /\ [][NextCursor]_vars

(***************************************************************************)
(* SpecRate: one session, live or shared, receives messages and other      *)
(* frames; the consumer may skip and reset the replay.                     *)
(***************************************************************************)
NextRate ==
    \/ \E cid \in ConversationIds, share \in BOOLEAN : Mount(cid, share)
    \/ \E c \in Channels : TransportConnect(c)
    \/ \E c \in Channels, f \in RatePool : OhEvent(c, f)
    \/ DeliveryTimer
    \/ SkipToResults
    \/ ResetReplay

SpecRate == Init /\ [][NextRate]_vars

(***************************************************************************)
(* SpecHandshake: the handshake of a session may be refused and its        *)
(* connection may drop, with any payload; the route may change between     *)
(* live and shared, and the consumer may call disconnect().                *)
(***************************************************************************)
NextHandshake ==
    \/ \E cid \in ConversationIds, share \in BOOLEAN : Mount(cid, share)
    \/ \E c \in Channels : TransportConnect(c)
    \/ \E c \in Channels, data \in HandshakePayloads :
          TransportDisconnect(c, data)
    \/ \E c \in Channels, data \in HandshakePayloads :
          TransportError(c, data)
    \/ \E share \in BOOLEAN : Rerender(conversationId, jwt, share)
    \/ Disconnect

SpecHandshake == Init /\ [][NextHandshake]_vars

(***************************************************************************)
(* SpecChannels: channels are opened, replaced and closed: the             *)
(* conversation, the token or the route mode changes, the consumer calls   *)
(* disconnect(), the provider is unmounted; the transport signals connect, *)
(* disconnect and error.                                                   *)
(***************************************************************************)
NextChannels ==
    \/ \E cid \in ConversationIds, share \in BOOLEAN : Mount(cid, share)
    \/ \E cid \in ConversationIds, token \in Tokens, share \in BOOLEAN :
          Rerender(cid, token, share)
    \/ Unmount
    \/ \E c \in Channels : TransportConnect(c)
    \/ \E c \in Channels, data \in TransportPayloads :
          TransportDisconnect(c, data)
    \/ \E c \in Channels, data \in TransportPayloads : TransportError(c, data)
    \/ Disconnect

SpecChannels == Init /\ [][NextChannels]_vars

(***************************************************************************)
(* SpecTeardown: sessions are replaced and torn down while frames arrive   *)
(* and delivery timers are pending.                                        *)
(***************************************************************************)
\* a frame arrives; at most MaxArrivals frames are taken in per behaviour
Inbound(c, f) ==
    /\ Len(handled) + Len(messageQueueRef) < MaxArrivals
    /\ OhEvent(c, f)

NextTeardown ==
    \/ \E cid \in ConversationIds, share \in BOOLEAN : Mount(cid, share)
    \/ \E cid \in ConversationIds, share \in BOOLEAN :
          Rerender(cid, jwt, share)
    \/ \E token \in Tokens : Rerender(conversationId, token, isShareRoute)
    \/ Unmount
    \/ \E c \in Channels : TransportConnect(c)
    \/ \E c \in Channels, f \in ValidFrames : Inbound(c, f)
    \/ DeliveryTimer

SpecTeardown == Init /\ [][NextTeardown]_vars

(***************************************************************************)
(* SpecAppend: every operation and callback other than resetReplay(): the  *)
(* route changes between live and shared, the transport signals connect,   *)
(* disconnect and error, frames arrive, timers expire, and the consumer    *)
(* calls skipToResults(), send() and disconnect().                         *)
(***************************************************************************)
\* two frames that can be told apart
AppendPool ==
    {Frame(Num(1), "agent", "message"), Frame(Num(2), "user", "message")}

\* the route of the first session changes: the effect runs a second time
Recreate(share) ==
    /\ session = 1
    /\ Rerender(conversationId, jwt, share)

\* the first send() call of the consumer
SendOnce(e) ==
    /\ emitted = <<>>
    /\ logged = 0
    /\ Send(e)

NextAppend ==
    \/ \E cid \in ConversationIds, share \in BOOLEAN : Mount(cid, share)
    \/ \E share \in BOOLEAN : Recreate(share)
    \/ \E c \in Channels : TransportConnect(c)
    \/ \E c \in Channels : TransportDisconnect(c, NoMessage)
    \/ \E c \in Channels : TransportError(c, NoMessage)
    \/ \E c \in Channels, f \in AppendPool : Inbound(c, f)
    \/ DeliveryTimer
    \/ SkipToResults
    \/ \E e \in Commands : SendOnce(e)
    \/ Disconnect

SpecAppend == Init /\ [][NextAppend]_vars

(***************************************************************************)
(* SpecEmptyId: one session, live or shared, receives frames and is then   *)
(* rendered with an empty conversationId.                                  *)
(***************************************************************************)
NextEmptyId ==
    \/ \E cid \in ConversationIds, share \in BOOLEAN : Mount(cid, share)
    \/ \E c \in Channels : TransportConnect(c)
    \/ \E c \in Channels, f \in ValidFrames : OhEvent(c, f)
    \/ DeliveryTimer
    \/ RerenderEmpty

SpecEmptyId == Init /\ [][NextEmptyId]_vars

(***************************************************************************)
(* SpecFacade: one session, live or shared, whose consumer calls           *)
(* skipToResults() and resetReplay() at any time.                          *)
(***************************************************************************)
NextFacade ==
    \/ \E cid \in ConversationIds, share \in BOOLEAN : Mount(cid, share)
    \/ \E c \in Channels : TransportConnect(c)
    \/ \E c \in Channels, f \in ValidFrames : OhEvent(c, f)
    \/ DeliveryTimer
    \/ SkipToResults
    \/ ResetReplay

SpecFacade == Init /\ [][NextFacade]_vars

(***************************************************************************)
(* SpecErrors: one session, live or shared, whose transport signals        *)
(* connect, disconnect and error with any payload.                         *)
(***************************************************************************)
NextErrors ==
    \/ \E cid \in ConversationIds, share \in BOOLEAN : Mount(cid, share)
    \/ \E c \in Channels : TransportConnect(c)
    \/ \E c \in Channels, data \in Payloads : TransportDisconnect(c, data)
    \/ \E c \in Channels, data \in Payloads : TransportError(c, data)
    \/ \E e \in Commands : Send(e)
    \/ Disconnect

SpecErrors == Init /\ [][NextErrors]_vars

(***************************************************************************)
(* SpecFailing: one session, live or shared, whose consumer handler may    *)
(* start to throw on an event.                                             *)
(***************************************************************************)
\* the consumer handler will throw when it is handed f
HandlerBreaks(f) ==
    /\ mounted
    /\ failing = {}
    /\ failing' = {f}
    /\ UNCHANGED <<conversationId, isShareRoute, session, jwt, mounted,
                   sockets, sioRef, status, replay, shouldProcessMessagesRef,
                   outside, rateRecords, arrived, resets, replayedFrom,
                   handlersCurrent>>

NextFailing ==
    \/ \E cid \in ConversationIds, share \in BOOLEAN : Mount(cid, share)
    \/ \E c \in Channels : TransportConnect(c)
    \/ \E c \in Channels, f \in ValidFrames : OhEvent(c, f)
    \/ \E f \in ValidFrames : HandlerBreaks(f)
    \/ DeliveryTimer
    \/ SkipToResults

SpecFailing == Init /\ [][NextFailing]_vars

(***************************************************************************)
(* Properties of a live session.                                           *)
(***************************************************************************)
\* the frame carries id, source, type and timestamp
WellFormed(f) == {"id", "source", "type", "timestamp"} \subseteq DOMAIN f

NumericId(f) == "id" \in DOMAIN f /\ f.id.k = "number"

AllOf(seq, P(_)) == \A i \in 1..Len(seq) : P(seq[i])

ValidNumeric(f) == WellFormed(f) /\ NumericId(f)

\* C1: on a live route, when every frame received so far carries id, source,
\* type, timestamp and a numeric id, events is exactly the received frames in
\* arrival order and the cursor (lastEventRef) holds the id of the last one.
C1_LiveLogIsArrivals ==
    (session > 0 /\ ~isShareRoute /\ AllOf(arrived, ValidNumeric)) =>
        /\ events = arrived
        /\ arrived # <<>> =>
             CursorId(lastEventRef) = IdOf(arrived[Len(arrived)])
        /\ arrived = <<>> => lastEventRef = <<>>

C1_Witness ==
    /\ ~isShareRoute
    /\ Len(arrived) = MaxArrivals
    /\ AllOf(arrived, ValidNumeric)
    /\ arrived[1] # arrived[2]
    /\ events = arrived

\* C2: no frame lacking id, source, type or timestamp is ever in events, in
\* the replay queue, or handed to the consumer handler.
C2_MalformedNeverAccepted ==
    /\ AllOf(events, WellFormed)
    /\ AllOf(messageQueueRef, WellFormed)
    /\ AllOf(handled, WellFormed)

\* C4: each event id occurs at most once in events.
C4_NoDuplicateIds ==
    \A i, j \in 1..Len(events) :
        (i # j /\ "id" \in DOMAIN events[i] /\ "id" \in DOMAIN events[j]) =>
            events[i].id # events[j].id

\* the provider still owns a channel that was connected and then dropped
DroppedBySignal ==
    /\ sioRef # 0
    /\ status = "DISCONNECTED"
    /\ sockets[sioRef].conn = "connecting"
    /\ sockets[sioRef].requested # NoCursor

\* C10: send() while status is DISCONNECTED forwards nothing to the transport
\* and only logs an error, also when DISCONNECTED came from a transport
\* disconnect or error signal.
C10_SendWhileDisconnectedIsNoOp ==
    [][(DroppedBySignal /\ \E e \in Commands : Send(e)) =>
          (emitted' = emitted /\ logged' = logged + 1)]_vars

(***************************************************************************)
(* Properties of the resume cursor.                                        *)
(***************************************************************************)
\* C3: when the transport signals disconnect on the channel the provider
\* owns, that channel's latest_event_id becomes the current lastDeliveredId
\* (lastEventRef.current?.id), and the next handshake of a channel requests
\* the latest_event_id the channel holds.
C3_DisconnectCapturesCursor ==
    /\ [][\A c \in Channels :
            (c = sioRef /\ sockets[c].conn = "connected"
                        /\ sockets'[c].conn = "connecting") =>
                sockets'[c].latest_event_id = CursorId(lastEventRef)]_vars
    /\ [][\A c \in Channels :
            (sockets[c].conn = "connecting"
                /\ sockets'[c].conn = "connected") =>
                sockets'[c].requested = sockets[c].latest_event_id]_vars

\* a reconnect asked for the id of the second event
C3_Witness ==
    /\ sioRef # 0
    /\ sockets[sioRef].conn = "connected"
    /\ sockets[sioRef].requested = Num(2)

IdsOf(seq) == {IdOf(seq[i]) : i \in 1..Len(seq)}

\* C5: against a remote that sends, on every (re)connect, exactly the events
\* after the requested latest_event_id, no event id occurs twice in events
\* followed by the replay queue, and none is missing.
C5_NoLossNoDuplicate ==
    LET all == events \o messageQueueRef IN
    /\ \A i, j \in 1..Len(all) : i # j => IdOf(all[i]) # IdOf(all[j])
    /\ \A i \in 1..MaxRemoteEvents :
          (\E j \in i..MaxRemoteEvents : Num(j) \in IdsOf(all)) =>
              Num(i) \in IdsOf(all)

(***************************************************************************)
(* Properties of the replay scheduler.                                     *)
(***************************************************************************)
ReplayDone ==
    /\ events = arrived
    /\ messageQueueRef = <<>>
    /\ replayStatus = "COMPLETED"

\* C6: on a share route, once frames have been received, under fairness of
\* the delivery timer the scheduler reaches a state where events is the
\* received frames in arrival order, the queue is empty and replayStatus is
\* COMPLETED (arrivals are bounded, so this covers the last arrival).
C6_ReplayRunsToCompletion == (isShareRoute /\ arrived # <<>>) ~> ReplayDone

C6_Witness ==
    /\ isShareRoute
    /\ Len(arrived) = MaxArrivals
    /\ ReplayDone
    /\ timers = <<>>
    /\ ~processingQueueRef

\* the state the scheduler ends in when every armed timer has expired and no
\* frame arrives meanwhile
RECURSIVE RunToCompletion(_)
RunToCompletion(r) ==
    IF r.timers = <<>> THEN r
    ELSE Bind(RunToCompletion,
              Bind(timerCallback, [r EXCEPT !.timers = Tail(@)]))

\* C7: from every share-route state with a non-empty replay queue, calling
\* skipToResults() and letting the paced scheduler run to completion end with
\* the same events, an empty queue and replayStatus COMPLETED.
C7_SkipEqualsPacedRun ==
    (isShareRoute /\ messageQueueRef # <<>>) =>
        LET paced == RunToCompletion(Cur)
            skipped == RunToCompletion(skipToResults(Cur))
        IN  /\ skipped.events = paced.events
            /\ skipped.events = events \o messageQueueRef
            /\ skipped.messageQueueRef = <<>>
            /\ paced.messageQueueRef = <<>>
            /\ skipped.replayStatus = "COMPLETED"
            /\ paced.replayStatus = "COMPLETED"

C7_Witness ==
    /\ isShareRoute
    /\ Len(messageQueueRef) >= 2
    /\ events # <<>>
    /\ messageQueueRef[1] # messageQueueRef[2]

\* C8: skipToResults() on a non-empty queue is one step after which the queue
\* is empty, events is the old events followed by the old queue, the consumer
\* has been handed the old queue in order, replayStatus is COMPLETED, and no
\* timer was awaited or armed.
C8_SkipIsAtomicBatch ==
    [][(SkipToResults /\ messageQueueRef # <<>>) =>
          /\ messageQueueRef' = <<>>
          /\ events' = events \o messageQueueRef
          /\ handled' = handled \o messageQueueRef
          /\ replayStatus' = "COMPLETED"
          /\ timers' = timers]_vars

\* a batch was drained while a delivery timer was still pending
C8_Witness ==
    /\ isShareRoute
    /\ replayStatus = "COMPLETED"
    /\ timers # <<>>
    /\ ~processingQueueRef
    /\ messageQueueRef = <<>>
    /\ Len(events) = MaxArrivals
    /\ handled = events

\* C9: resetReplay() on a COMPLETED replay whose log is E queues E with
\* replayStatus IN_PROGRESS and the scheduler then re-delivers E in order:
\* the run ends with events = E, the consumer handed E, and COMPLETED.  The
\* first conjunct computes that run from every COMPLETED state; the second
\* follows the runs the model takes.
C9_ResetReplaysLog ==
    /\ (isShareRoute /\ replayStatus = "COMPLETED") =>
          LET started == resetReplay(Cur)
              ended == RunToCompletion(started)
          IN  /\ started.events \o started.messageQueueRef = events
              /\ events # <<>> => started.replayStatus = "IN_PROGRESS"
              /\ ended.events = events
              /\ ended.handled = events
              /\ ended.messageQueueRef = <<>>
              /\ ended.replayStatus = "COMPLETED"
    /\ replayedFrom # <<>> =>
          /\ events \o messageQueueRef = replayedFrom
          /\ handled = events
          /\ timers = <<>> => (messageQueueRef = <<>>
                                 /\ replayStatus = "COMPLETED")
          /\ messageQueueRef # <<>> => replayStatus = "IN_PROGRESS"

\* a COMPLETED log of several events has been replayed to the end
C9_Witness ==
    /\ Len(replayedFrom) >= 2
    /\ replayedFrom[1] # replayedFrom[2]
    /\ events = replayedFrom
    /\ replayStatus = "COMPLETED"
    /\ timers = <<>>

(***************************************************************************)
(* Properties of the session lifecycle.                                    *)
(***************************************************************************)
\* C11: disconnect() on an owned channel leaves that channel without
\* listeners and closed, sioRef released and status DISCONNECTED; a call
\* with no owned channel changes nothing.
C11_DisconnectDetachesAndCloses ==
    [][Disconnect =>
          /\ sioRef' = 0
          /\ status' = "DISCONNECTED"
          /\ sioRef # 0 => /\ sockets'[sioRef].conn = "closed"
                           /\ ~sockets'[sioRef].listeners
          /\ sioRef = 0 => UNCHANGED vars]_vars

\* the channels that are open and have listeners registered
Alive == {c \in Channels : sockets[c].conn # "closed" /\ sockets[c].listeners}

\* C12: at every time at most one channel is open with listeners attached,
\* and whenever a new channel is opened every earlier channel is closed and
\* has no listeners left.
C12_NoTwoChannelsAlive ==
    /\ [](Cardinality(Alive) <= 1)
    /\ [][Len(sockets') > Len(sockets) =>
            \A c \in Channels : /\ sockets'[c].conn = "closed"
                                /\ ~sockets'[c].listeners]_vars

\* C13: a delivery timer armed by an earlier session than the current one
\* changes neither the replay queue, events, what the consumer was handed,
\* nor replayStatus when it expires.
C13_StaleTimerDoesNothing ==
    [][(DeliveryTimer /\ Head(timers) # session) =>
          UNCHANGED <<messageQueueRef, events, handled, replayStatus>>]_vars

\* C14: right after the effect has re-created the session (conversationId
\* or token changed), events is empty, lastEventRef is unset, the replay
\* queue is empty and the new channel carries latest_event_id = -1.
C14_SessionCreationResetsState ==
    [][session' > session =>
          /\ events' = <<>>
          /\ lastEventRef' = <<>>
          /\ messageQueueRef' = <<>>
          /\ sockets'[sioRef'].latest_event_id = Num(-1)]_vars

\* the provider was mounted and has been unmounted
Unmounted == session > 0 /\ ~mounted

\* C15: once the provider is unmounted every channel is closed and without
\* listeners, and no later frame or timer changes events or lastEventRef
\* or hands an event to the consumer.
C15_UnmountDestroysSession ==
    /\ [](Unmounted =>
            \A c \in Channels : /\ sockets[c].conn = "closed"
                                /\ ~sockets[c].listeners)
    /\ [][Unmounted => UNCHANGED <<events, lastEventRef, handled>>]_vars

\* C16: while the provider is mounted, status is CONNECTED only if the
\* provider owns a channel whose last transport signal was connect; hence it
\* is DISCONNECTED after an error or disconnect signal, after disconnect(),
\* and after the channel was replaced until the new channel connects.
C16_StatusFollowsChannel ==
    (mounted /\ status = "CONNECTED") =>
        (sioRef # 0 /\ sockets[sioRef].conn = "connected")

\* a connected channel has been replaced and the new one is still connecting
C16_Witness ==
    /\ mounted
    /\ session = MaxSessions
    /\ sockets[1].requested # NoCursor
    /\ sockets[1].latest_event_id = Undefined
    /\ sockets[sioRef].conn = "connecting"
    /\ sockets[sioRef].requested = NoCursor
    /\ status = "DISCONNECTED"

(***************************************************************************)
(* Properties of the facade operations outside a replay.                   *)
(***************************************************************************)
\* C17: resetReplay() on a live route changes neither events, the replay
\* queue, replayStatus, lastEventRef nor what the consumer has built up,
\* and arms no timer.
C17_ResetIsNoOpWhenLive ==
    [][(ResetReplay /\ ~isShareRoute) =>
          UNCHANGED <<events, messageQueueRef, replayStatus, lastEventRef,
                      handled, timers>>]_vars

\* C18: skipToResults() with an empty replay queue or on a live route
\* changes neither events, lastEventRef, replayStatus, the processing flag
\* nor the pending timers, and hands nothing to the consumer.
C18_SkipIsNoOpWhenIdle ==
    [][(SkipToResults /\ (messageQueueRef = <<>> \/ ~isShareRoute)) =>
          UNCHANGED <<events, lastEventRef, replayStatus,
                      processingQueueRef, timers, handled>>]_vars

(***************************************************************************)
(* Properties of error handling.                                           *)
(***************************************************************************)
\* C19: every transport error or disconnect signal sets status to
\* DISCONNECTED; its payload reaches the error reporter exactly once if it
\* carries a string message other than "websocket error" and "timeout",
\* and not at all otherwise.
C19_ErrorClassification ==
    [][\A c \in Channels, data \in Payloads :
          (TransportError(c, data) \/ TransportDisconnect(c, data)) =>
              /\ status' = "DISCONNECTED"
              /\ reported' =
                    IF data.hasMessage
                       /\ data.message \notin {"websocket error", "timeout"}
                    THEN Append(reported, data.message)
                    ELSE reported]_vars

\* a domain error was reported on a channel that had been connected
C19_Witness ==
    /\ Len(reported) = MaxReports
    /\ reported[1] \in {"agent crashed", "Conversation not found"}
    /\ status = "DISCONNECTED"
    /\ sioRef # 0
    /\ sockets[sioRef].requested # NoCursor

\* C20: every handshake of a channel requests an integer latest_event_id:
\* the id of lastEventRef if an event has been delivered, -1 otherwise.
C20_CursorIsInteger ==
    [][\A c \in Channels :
          TransportConnect(c) =>
              /\ sockets'[c].requested.k = "number"
              /\ sockets'[c].requested =
                    IF lastEventRef = <<>> THEN Num(-1)
                    ELSE IdOf(lastEventRef[1])]_vars

(***************************************************************************)
(* Properties of delivery to the consumer.                                 *)
(***************************************************************************)
\* C21: while the provider is mounted, what the consumer handler has been
\* handed since the last resetReplay() is exactly events, and every step
\* other than resetReplay() appends the same events to both.
C21_AppendPairedWithForward ==
    /\ [](mounted => handled = events)
    /\ [][(mounted /\ resets' = resets) =>
            /\ Len(events') >= Len(events)
            /\ SubSeq(events', 1, Len(events)) = events
            /\ handled' = handled \o
                  SubSeq(events', Len(events) + 1, Len(events'))]_vars

\* a replay was reset, paced and then drained by skipToResults()
C21_Witness ==
    /\ isShareRoute
    /\ resets > 0
    /\ Len(events) = MaxArrivals
    /\ handled = events
    /\ timers # <<>>
    /\ replayStatus = "COMPLETED"

(***************************************************************************)
(* Properties of replay pacing.                                            *)
(***************************************************************************)
\* C22: on a share route at most one delivery timer is pending at any
\* time, and a paced delivery (which arms a timer) happens only when no
\* timer is pending or as the callback of the expiring timer.
C22_OneTimerPending ==
    /\ [](isShareRoute => Len(timers) <= 1)
    /\ [][(isShareRoute /\ Len(timers') > Len(timers)) =>
            timers = <<>>]_vars

\* handled is an initial part of events
IsPrefix(a, b) == Len(a) <= Len(b) /\ SubSeq(b, 1, Len(a)) = a

\* C23: also when the consumer handler throws on an event, every event it
\* was handed is in events, and on a share route the scheduler is never
\* left with the processing flag set and no timer pending; once no timer
\* is pending the received frames are all delivered and replayStatus is
\* COMPLETED.
C23_HandlerFailureKeepsReplayGoing ==
    /\ IsPrefix(handled, events)
    /\ isShareRoute =>
          /\ processingQueueRef => timers # <<>>
          /\ (timers = <<>> /\ arrived # <<>>) =>
                (messageQueueRef = <<>> /\ replayStatus = "COMPLETED")

\* C24: on a share route, whenever replayStatus is COMPLETED the replay
\* queue is empty, no delivery is in progress and no timer is pending.
C24_CompletedMeansIdle ==
    (isShareRoute /\ replayStatus = "COMPLETED") =>
        /\ messageQueueRef = <<>>
        /\ ~processingQueueRef
        /\ timers = <<>>

\* C25: on a share route, under any interleaving of arrivals, timer
\* expiries and skipToResults() calls, events followed by the replay queue
\* is the sequence of received frames in arrival order.
C25_FifoUnderInterleaving ==
    isShareRoute => events \o messageQueueRef = arrived

\* frames were received while two were waiting and one had been delivered
C25_Witness ==
    /\ isShareRoute
    /\ Len(arrived) = MaxArrivals
    /\ Len(events) >= 2
    /\ messageQueueRef # <<>>
    /\ events[1] # events[2]
    /\ events \o messageQueueRef = arrived

(***************************************************************************)
(* Properties of cursor tracking.                                          *)
(***************************************************************************)
\* C26: a skipToResults() call that drains a non-empty queue leaves
\* lastEventRef at the last item of the batch when that item's id parses as
\* a number, and at its previous value otherwise, whatever the ids of the
\* other items are.
C26_SkipCursorIsLastOfBatch ==
    [][(SkipToResults /\ messageQueueRef # <<>>) =>
          LET lastEvent == messageQueueRef[Len(messageQueueRef)] IN
          lastEventRef' = IF ~isNaN(parseInt(IdOf(lastEvent)))
                          THEN <<lastEvent>>
                          ELSE lastEventRef]_vars

\* a batch whose last id is no number and whose first id is numeric was
\* drained: the cursor still is the event delivered before the batch
C26_Witness ==
    /\ isShareRoute
    /\ Len(events) = 3
    /\ events = arrived
    /\ messageQueueRef = <<>>
    /\ replayStatus = "COMPLETED"
    /\ isNaN(parseInt(IdOf(events[3])))
    /\ ~isNaN(parseInt(IdOf(events[2])))
    /\ events[2] # events[1]
    /\ lastEventRef = <<events[1]>>

\* the most recent entry of seq whose id parses as a number, if any
LastNumeric(seq) ==
    LET numeric == {i \in 1..Len(seq) : ~isNaN(parseInt(IdOf(seq[i])))} IN
    IF numeric = {} THEN <<>>
    ELSE <<seq[CHOOSE i \in numeric : \A j \in numeric : j <= i]>>

\* C27: under live and paced deliveries every received frame, also one
\* whose id is absent or does not parse as a number, is appended to events
\* and handed to the consumer; lastEventRef is the most recently delivered
\* event whose id parses as a number, and is unset when there is none.
C27_CursorGuard ==
    /\ events \o messageQueueRef = arrived
    /\ handled = events
    /\ lastEventRef = LastNumeric(events)

\* an event with a numeric id was delivered, then one whose id is no number
\* and one without id
C27_Witness ==
    /\ Len(events) = 3
    /\ handled = events
    /\ ~isNaN(parseInt(IdOf(events[1])))
    /\ "id" \in DOMAIN events[2] /\ isNaN(parseInt(IdOf(events[2])))
    /\ "id" \notin DOMAIN events[3]
    /\ lastEventRef = <<events[1]>>

(***************************************************************************)
(* Properties of the rate monitor.                                         *)
(***************************************************************************)
\* a frame with id, source, message and timestamp that is a message of the
\* user or the agent
RateQualifies(f) ==
    /\ {"id", "source", "message", "timestamp", "type"} \subseteq DOMAIN f
    /\ f.type = "message"
    /\ f.source \in {"user", "agent"}

\* C28: on a live and on a share route the rate monitor has been fed once
\* for every received frame that has id, source, message and timestamp and
\* is a message of the user or the agent, and for no other frame; it is fed
\* only in the step in which a frame arrives, never by a timer expiry,
\* skipToResults() or resetReplay().
C28_RateFedOncePerMessage ==
    /\ [](rateRecords =
             Cardinality({i \in 1..Len(arrived) : RateQualifies(arrived[i])}))
    /\ [][rateRecords' # rateRecords =>
            /\ rateRecords' = rateRecords + 1
            /\ Len(arrived') = Len(arrived) + 1]_vars

\* two messages and one other frame were received on a share route, and the
\* replay was reset and has delivered again
C28_Witness ==
    /\ isShareRoute
    /\ resets > 0
    /\ Len(arrived) = 3
    /\ rateRecords = 2
    /\ events # <<>>
    /\ \E i \in 1..3 : ~isOpenHandsEvent(arrived[i])

(***************************************************************************)
(* Properties of the redirect and of send().                               *)
(***************************************************************************)
\* C29: a connection-error signal schedules one redirect exactly when it
\* carries the message "Conversation not published" or "Conversation not
\* found" and the session is on a share route; on a live route, for every
\* other payload, and in every step that is no connection-error signal
\* (a disconnect signal among them) no redirect is scheduled.
C29_RedirectOnlyForMissingShare ==
    /\ [][\A c \in Channels, data \in HandshakePayloads :
            TransportError(c, data) =>
                redirects' =
                    IF /\ isShareRoute
                       /\ data.hasMessage
                       /\ data.message \in {"Conversation not published",
                                             "Conversation not found"}
                    THEN redirects + 1
                    ELSE redirects]_vars
    /\ [][(redirects' # redirects) =>
            \E c \in Channels, data \in HandshakePayloads :
                TransportError(c, data)]_vars

\* the handshake of a share-route session was refused: not published
C29_Witness ==
    /\ isShareRoute
    /\ redirects = 1
    /\ reported = <<"Conversation not published">>
    /\ status = "DISCONNECTED"

\* C30: send(event) while the provider owns a channel emits event itself
\* once on that channel under the name "oh_user_action" and changes neither
\* events, the replay queue, lastEventRef, status nor replayStatus.
C30_SendForwardsVerbatim ==
    [][\A e \in Commands :
          (Send(e) /\ sioRef # 0) =>
              /\ emitted' = Append(emitted, [socket |-> sioRef,
                                             name |-> "oh_user_action",
                                             event |-> e])
              /\ UNCHANGED <<events, messageQueueRef, lastEventRef, status,
                             replayStatus>>]_vars

\* a command was sent on the connected channel the provider owns
C30_Witness ==
    /\ sioRef # 0
    /\ status = "CONNECTED"
    /\ Len(emitted) = 1
    /\ emitted[1].socket = sioRef
    /\ emitted[1].event \in Commands

(***************************************************************************)
(* Properties of the resume cursor and of resetReplay().                   *)
(***************************************************************************)
\* the frames received so far carry strictly increasing numeric ids
IncreasingIds(seq) ==
    /\ AllOf(seq, ValidNumeric)
    /\ \A i, j \in 1..Len(seq) : i < j => seq[i].id.n < seq[j].id.n

\* C31: within one session whose received frames carry strictly increasing
\* numeric ids, no step moves lastEventRef from an event to an event with a
\* smaller id or back to unset.
C31_CursorNeverDecreases ==
    [][(session' = session /\ IncreasingIds(arrived') /\ lastEventRef # <<>>)
          => /\ lastEventRef' # <<>>
             /\ parseInt(CursorId(lastEventRef')).val >=
                    parseInt(CursorId(lastEventRef)).val]_vars

\* C32: every event that is in the replay queue when resetReplay() is
\* called is in the replay queue or in events afterwards.
C32_ResetKeepsQueuedEvents ==
    [][ResetReplay =>
          \A i \in 1..Len(messageQueueRef) :
              \E j \in 1..Len(events' \o messageQueueRef') :
                  (events' \o messageQueueRef')[j] = messageQueueRef[i]]_vars

\* C33: every step of an operation or callback other than resetReplay()
\* (frame arrival, timer expiry, skipToResults(), send(), disconnect(),
\* transport signals, session re-creation) leaves events unchanged or
\* extends it at the end.
C33_EventsAppendOnly ==
    [][IsPrefix(events, events')]_vars

\* the log of the first session was extended in the second session, on a
\* share route, and the queue has been drained
C33_Witness ==
    /\ session = 2
    /\ isShareRoute
    /\ arrived # <<>>
    /\ Len(arrived) < Len(events)
    /\ messageQueueRef = <<>>
    /\ replayStatus = "COMPLETED"
    /\ SubSeq(events, Len(events) - Len(arrived) + 1, Len(events)) = arrived

(***************************************************************************)
(* Properties of disconnect() and of the connection effect.                *)
(***************************************************************************)
\* the consumer has called disconnect() and no session was created since
Disconnected == mounted /\ session > 0 /\ sioRef = 0

\* C34: after disconnect() and until the next session creation, status is
\* DISCONNECTED, every channel is closed and stays so (no reconnect), no
\* frame is taken in, send() only logs; events queued before are still
\* scheduled for delivery (a timer is pending and delivery is not
\* cancelled), events only grows, and disconnect() itself changes neither
\* events nor lastEventRef.
C34_DisconnectedUntilNewSession ==
    /\ [](Disconnected =>
            /\ status = "DISCONNECTED"
            /\ \A c \in Channels : sockets[c].conn = "closed"
            /\ shouldProcessMessagesRef
            /\ messageQueueRef # <<>> => timers # <<>>)
    /\ [][(Disconnected /\ sioRef' = 0) =>
            /\ sockets' = sockets
            /\ arrived' = arrived
            /\ emitted' = emitted
            /\ IsPrefix(events, events')]_vars
    /\ [][Disconnect => UNCHANGED <<events, lastEventRef, messageQueueRef>>]_vars

\* after disconnect() in the second session a send() was logged and a queued
\* event has been delivered
C34_Witness ==
    /\ Disconnected
    /\ session = 2
    /\ isShareRoute
    /\ logged = 1
    /\ Len(arrived) >= 2
    /\ Len(events) >= Len(arrived)
    /\ messageQueueRef = <<>>
    /\ timers # <<>>

====
